---- MODULE Spec2Model ----
(***************************************************************************)
(* Orcha: the server-side scheduling and lifecycle engine.                 *)
(*                                                                         *)
(* The model follows src/orcha/lib/processor.py (class Processor),         *)
(* src/orcha/lib/orcha.py (class Orcha) and src/orcha/ext/petition.py      *)
(* (PetitionState, Petition).  Every thread of the Processor is a process  *)
(* of the model with its own program counter; the steps are cut where      *)
(* another thread can observe or change the shared state in between.       *)
(*                                                                         *)
(* Objects.  Message number k (1..MaxMsgs, in submission order) yields     *)
(* the Placeholder -k and, if the conversion succeeds, the petition k.     *)
(* 0 stands for an EmptyPetition (in the ready queue and as a task         *)
(* argument) and for the None sentinel (in the proxied queues).            *)
(***************************************************************************)
EXTENDS Integers, Sequences, FiniteSets, TLC

\* ------------------------------------------------------------------------
\* Bounds of the model
\* ------------------------------------------------------------------------
MaxMsgs == 2          \* messages that clients submit in one run
NumIds == 2           \* distinct message ids clients choose from
NumPrios == 2         \* distinct priorities a conversion hands out
MaxCancels == 2       \* cancel requests that clients send in one run
MaxFaults == 1        \* plugin calls that fail in one run (convert, condition, on_start, action)
MaxStops == 1         \* runs of Orcha.shutdown that the main thread starts from serving
MaxEvents == 2        \* events of a run in which every kind of event is possible
MaxWorkers == 2       \* properties.max_workers: size of the thread pool
MaxLookAhead == 2     \* largest configured look-ahead
MaxTimeouts == 1      \* polls of Intake that time out in one run
MaxPuts == 4          \* petitions put into the ready queue on its own (SpecQueue)
MaxPlugs == 1         \* hook objects (Pluggable) the manager installs in a run with hooks

\* ------------------------------------------------------------------------
\* Program constants
\* ------------------------------------------------------------------------
STARVING_SEEN == 1000 \* processor.py:530, "petition is starving"

Msgs == 1..MaxMsgs
Ids == 1..NumIds
Prios == 1..NumPrios
Workers == 1..MaxWorkers
INF == NumPrios + 1   \* float("inf"), the priority of Placeholder and EmptyPetition

\* ------------------------------------------------------------------------
\* PetitionState (src/orcha/ext/petition.py)
\* ------------------------------------------------------------------------
PetitionState ==
  {"PENDING", "ENQUEUED", "RUNNING", "FINISHED", "CANCELLED", "BROKEN", "DONE"}

\* the states without a successor in VALID_TRANSITIONS
TERMINAL_STATES == {"DONE", "BROKEN"}

STOPPED_STATES == {"PENDING", "FINISHED", "BROKEN"}
RUNNING_STATES == {"RUNNING", "ENQUEUED"}
BROKEN_STATES == {"BROKEN"}

\* VALID_TRANSITIONS with FINISHED and CANCELLED left open to BROKEN only
VALID_TRANSITIONS_NoDone(s) ==
  CASE s = "PENDING" -> {"BROKEN", "ENQUEUED"}
    [] s = "ENQUEUED" -> {"BROKEN", "CANCELLED", "RUNNING"}
    [] s = "RUNNING" -> {"BROKEN", "CANCELLED", "FINISHED"}
    [] s = "FINISHED" -> {"BROKEN"}
    [] s = "CANCELLED" -> {"BROKEN"}
    [] s = "DONE" -> {}
    [] s = "BROKEN" -> {}

VALID_TRANSITIONS(s) ==
  CASE s = "PENDING" -> {"BROKEN", "ENQUEUED"}
    [] s = "ENQUEUED" -> {"BROKEN", "CANCELLED", "RUNNING"}
    [] s = "RUNNING" -> {"BROKEN", "CANCELLED", "FINISHED"}
    [] s = "FINISHED" -> {"BROKEN", "DONE"}
    [] s = "CANCELLED" -> {"BROKEN", "DONE"}
    [] s = "DONE" -> {}
    [] s = "BROKEN" -> {}

\* Petition.state setter: TRUE when the assignment is accepted, FALSE when it
\* raises InvalidStateError (and leaves the state as it was).
StateSetterAccepts(cur, new) ==
  ~(new # cur /\ new \notin VALID_TRANSITIONS(cur))

\* The state after `p.state = new`.
StateAfterSet(cur, new) == IF StateSetterAccepts(cur, new) THEN new ELSE cur

VARIABLES
  queue,              \* Processor._queue: proxied submit queue (message numbers, 0 = None)
  finishq,            \* Processor._finishq: proxied cancel-in queue (ids, 0 = None)
  signals,            \* Processor._signals: cancel-out queue (ids, 0 = None)
  internalq,          \* Processor._internalq: the heap list of the PriorityQueue
  petitions,          \* Processor._petitions: id -> object (0 = no entry)
  emptyKey,           \* whether "__empty__" is a key of Processor._petitions
  enqueued_messages,  \* Orcha._enqueued_messages: the running ids
  seen_petitions,     \* Processor._seen_petitions
  starving,           \* Processor._starving
  look_ahead,         \* Manager._look_ahead (Processor.look_ahead)
  old_look_ahead,     \* Processor._old_look_ahead
  finished,           \* Processor._finished (running = ~finished)
  shutdown_set,       \* Orcha._shutdown
  petition_lock,      \* Orcha._petition_lock: 0 free, -1 Admission, w worker w
  tasks,              \* ThreadPoolExecutor work queue
  pool_shutdown,      \* ThreadPoolExecutor._shutdown
  workers,            \* pool threads: [pc, kind, obj]
  pc,                 \* position of the main thread and of the four Processor threads
  intake_msg,         \* Intake: the message being processed
  adm,                \* Admission: locals of _internal_process/_grab_petitions/_handle_petitions
  signal_id,          \* Cancel-Dispatch: local signal_id
  snapshot,           \* Processor.shutdown: set(self._petitions) still to be signalled
  probe,              \* what the operation under test was applied to and gave (SpecSetter, SpecQueue)
  env,                \* what the environment of this run may do at most
  ntimeouts,          \* idle polls of Intake so far
  nmsgs,              \* messages submitted so far
  ncancels,           \* cancel requests sent so far
  rejected,           \* the client calls that ended with ManagerShutdownError so far
  ids_used,           \* the ids clients have named so far are 1..ids_used
  mid,                \* message k -> its id (0 before submission)
  mprio,              \* message k -> the priority its petition gets
  pstate,             \* petition k -> Petition.__state__
  hist                \* observation only: per petition, what has been invoked on it

vars ==
  << queue, finishq, signals, internalq, petitions, emptyKey, enqueued_messages,
     seen_petitions, starving, look_ahead, old_look_ahead, finished, shutdown_set,
     petition_lock, tasks, pool_shutdown, workers, pc, intake_msg, adm, signal_id,
     snapshot, probe, env, ntimeouts, nmsgs, ncancels, rejected, ids_used, mid, mprio,
     pstate, hist >>

\* ------------------------------------------------------------------------
\* Objects
\* ------------------------------------------------------------------------
IsPetition(o) == o > 0
IsPlaceholder(o) == o < 0
IsEmpty(o) == o = 0
MsgOf(o) == IF o < 0 THEN -o ELSE o

\* Petition.id of a petition or placeholder object
ObjId(o) == mid[MsgOf(o)]

\* Petition.state: a Placeholder is never assigned a state, so it keeps the
\* class default PENDING; an EmptyPetition is ENQUEUED once _prepare_petition
\* has handled it.
ObjState(o) ==
  IF IsPetition(o) THEN pstate[o] ELSE IF IsPlaceholder(o) THEN "PENDING" ELSE "ENQUEUED"

\* Petition.priority
Priority(o) == IF IsPetition(o) THEN mprio[o] ELSE INF

\* Petition.__lt__ comparing the wrong way round
PetitionLt_Reversed(a, b) == Priority(a) > Priority(b)

\* Petition.__lt__: priorities only
PetitionLt(a, b) == Priority(a) < Priority(b)

\* ------------------------------------------------------------------------
\* queue.PriorityQueue over a heapq list (1-based positions here)
\* ------------------------------------------------------------------------
RECURSIVE SiftDown(_, _, _, _)
\* heapq._siftdown: move item up from pos towards startpos while it is less than its parent
SiftDown(h, startpos, pos, item) ==
  IF pos > startpos /\ PetitionLt(item, h[pos \div 2])
  THEN SiftDown([h EXCEPT ![pos] = h[pos \div 2]], startpos, pos \div 2, item)
  ELSE [h EXCEPT ![pos] = item]

RECURSIVE SiftUp(_, _, _)
\* heapq._siftup: bubble the smaller child up until a leaf, then sift item down from there
SiftUp(h, pos, item) ==
  LET child == 2 * pos
      right == child + 1
  IN  IF child <= Len(h)
      THEN LET c == IF right <= Len(h) /\ ~PetitionLt(h[child], h[right])
                    THEN right ELSE child
           IN  SiftUp([h EXCEPT ![pos] = h[c]], c, item)
      ELSE SiftDown(h, 1, pos, item)

\* PriorityQueue.put
HeapPush(h, x) == SiftDown(Append(h, x), 1, Len(h) + 1, x)

\* PriorityQueue.get on a non-empty queue: the item returned
HeapTop(h) == h[1]

\* PriorityQueue.get on a non-empty queue: the heap that is left
HeapRest(h) ==
  LET last == h[Len(h)]
      rest == SubSeq(h, 1, Len(h) - 1)
  IN  IF rest = <<>> THEN rest ELSE SiftUp([rest EXCEPT ![1] = last], 1, last)

\* ------------------------------------------------------------------------
\* Initial state: Processor.__init__ and Orcha.__init__ have run, the four
\* threads are started, nothing has been submitted.
\* ------------------------------------------------------------------------
Threads == {"main", "intake", "adm", "csig", "cdisp"}

\* What is recorded about petition k:
\*   start, finish, term  calls of Manager.on_start, Manager.on_finish, Petition.terminate
\*   action               "no", "run" while the pool executes Petition.action, "end" after
\*   created              Intake got a petition from the conversion
\*   cancelled            _finish assigned CANCELLED
\*   denied, faults       ConditionFailed denials; plugin calls that failed
\*   met                  the petitions that were in the ready queue together with k
\*   frames               what the server has put into k's reply queue, in order:
\*                        "text" (communicate), "code" (finish(ret)), "none" (finish())
\*   late                 _finish put a frame while k's state was DONE or BROKEN
\*   phcancel             Cancel-Dispatch popped k's Placeholder from the map
\*   checkerr             k's admission check raised an exception other than ConditionFailed
\*   invalid              an assignment to the state of k (or of k's Placeholder) made by
\*                        the engine raised InvalidStateError
NoHist == [start |-> 0, finish |-> 0, term |-> 0, denied |-> 0, faults |-> 0,
           action |-> "no", created |-> FALSE, cancelled |-> FALSE, met |-> {},
           frames |-> <<>>, late |-> FALSE, phcancel |-> FALSE, checkerr |-> FALSE,
           invalid |-> FALSE]

IdleWorker == [pc |-> "idle", kind |-> "none", obj |-> 0]

AdmInit == [n |-> 0, i |-> 0, batch |-> <<>>, cur |-> 0, unsuccessful |-> <<>>]

InitCommon ==
  /\ queue = <<>>
  /\ finishq = <<>>
  /\ signals = <<>>
  /\ internalq = <<>>
  /\ petitions = [i \in Ids |-> 0]
  /\ emptyKey = FALSE
  /\ enqueued_messages = {}
  /\ seen_petitions = [i \in Ids |-> 0]
  /\ starving = {}
  /\ finished = FALSE
  /\ shutdown_set = FALSE
  /\ petition_lock = 0
  /\ tasks = <<>>
  /\ pool_shutdown = FALSE
  /\ workers = [w \in Workers |-> IdleWorker]
  /\ pc = [t \in Threads |-> "loop"]
  /\ intake_msg = 0
  /\ adm = AdmInit
  /\ signal_id = 0
  /\ snapshot = {}
  /\ ntimeouts = 0
  /\ nmsgs = 0
  /\ ncancels = 0
  /\ rejected = {}
  /\ ids_used = 0
  /\ mid = [k \in Msgs |-> 0]
  /\ pstate = [k \in Msgs |-> "PENDING"]
  /\ hist = [k \in Msgs |-> NoHist]

\* The runs that are explored.  An event is a submit, a cancel request, a
\* plugin call that fails or a shutdown request.
\*   any kind of event, MaxEvents of them, under every look-ahead
\*   submits, a failing plugin call and one cancel request, all for one id
\*   (an id is used again; a broken petition is cancelled)
\*   one submit, cancel requests and a shutdown request
\*   one submit whose action returns only when it is terminated, a pool of
\*   one thread, one cancel request and a shutdown request
\*   one submit and one cancel request with hook objects installed that
\*   override none of the extension points
\* `workers` is properties.max_workers; `blocking` says that an action does
\* not return before terminate() has been called on its petition; `plugs` is
\* the number of hook objects Manager.get_plugs returns.
Scenarios ==
  { [msgs |-> MaxMsgs, cancels |-> MaxCancels, faults |-> MaxFaults, stops |-> MaxStops,
     events |-> MaxEvents, timeouts |-> MaxTimeouts, ids |-> NumIds, prios |-> NumPrios,
     la |-> 1..MaxLookAhead, workers |-> MaxWorkers, blocking |-> FALSE, plugs |-> 0],
    [msgs |-> MaxMsgs, cancels |-> 1, faults |-> MaxFaults, stops |-> 0,
     events |-> MaxMsgs + 1, timeouts |-> 0, ids |-> 1, prios |-> 1, la |-> {1},
     workers |-> MaxWorkers, blocking |-> FALSE, plugs |-> 0],
    [msgs |-> 1, cancels |-> MaxCancels, faults |-> 0, stops |-> MaxStops,
     events |-> 1 + MaxCancels + MaxStops, timeouts |-> 0, ids |-> 1, prios |-> 1,
     la |-> {1}, workers |-> MaxWorkers, blocking |-> FALSE, plugs |-> 0],
    [msgs |-> 1, cancels |-> 1, faults |-> 0, stops |-> MaxStops,
     events |-> 2 + MaxStops, timeouts |-> 0, ids |-> 1, prios |-> 1,
     la |-> {1}, workers |-> 1, blocking |-> TRUE, plugs |-> 0],
    [msgs |-> 1, cancels |-> 1, faults |-> 0, stops |-> 0,
     events |-> 2, timeouts |-> 0, ids |-> 1, prios |-> 1,
     la |-> {1}, workers |-> MaxWorkers, blocking |-> FALSE, plugs |-> MaxPlugs] }

NoProbe == [op |-> "none"]

Init ==
  /\ InitCommon
  /\ probe = NoProbe
  /\ mprio = [k \in Msgs |-> 0]
  /\ env \in Scenarios
  /\ look_ahead \in env.la
  /\ old_look_ahead = look_ahead

qVars == << queue, finishq, signals >>
starveVars == << seen_petitions, starving, look_ahead, old_look_ahead >>
flagVars == << finished, shutdown_set >>
poolVars == << tasks, pool_shutdown, workers >>
localVars == << intake_msg, adm, signal_id, snapshot >>
clientVars == << nmsgs, ncancels, rejected, ids_used, mid, mprio >>

\* ------------------------------------------------------------------------
\* The environment of one run: clients, the plugin's code, the operator
\* ------------------------------------------------------------------------
RECURSIVE FaultsUpTo(_)
FaultsUpTo(k) == IF k = 0 THEN 0 ELSE hist[k].faults + FaultsUpTo(k - 1)
NFaults == FaultsUpTo(MaxMsgs)

\* shutdown has been requested on the main thread
ShutdownRequested == pc["main"] # "loop"

Events ==
  nmsgs + ncancels + Cardinality(rejected) + NFaults + (IF ShutdownRequested THEN 1 ELSE 0)

\* one more plugin call may fail
MayFail == NFaults < env.faults /\ Events < env.events

\* Ids are interchangeable: a client names a used id or the next unused one
IdChoice(id) == id <= ids_used + 1 /\ id <= env.ids
IdsUsedAfter(id) == IF id > ids_used THEN id ELSE ids_used

\* the petitions in the ready queue
InQueue(h) == {h[i] : i \in 1..Len(h)} \ {0}

\* ------------------------------------------------------------------------
\* Clients (Orcha._add_message, Orcha._finish_message)
\* ------------------------------------------------------------------------
\* _add_message and _finish_message hand the request to the Processor unless
\* the shutdown event is set
RequestAccepted_Always(flag) == TRUE

RequestAccepted(flag) == ~flag

\* send(message): the id is the client's choice, the priority is what the
\* conversion will give the petition.
Submit(id, prio) ==
  /\ prio <= env.prios
  /\ Events < env.events
  /\ IdChoice(id)
  /\ IF RequestAccepted(shutdown_set)
     THEN /\ nmsgs < env.msgs
          /\ ids_used' = IdsUsedAfter(id)
          /\ nmsgs' = nmsgs + 1
          /\ mid' = [mid EXCEPT ![nmsgs + 1] = id]
          /\ mprio' = [mprio EXCEPT ![nmsgs + 1] = prio]
          /\ queue' = Append(queue, nmsgs + 1)
          /\ rejected' = rejected
     ELSE \* ManagerShutdownError
          /\ "submit" \notin rejected
          /\ id = 1 /\ prio = 1
          /\ rejected' = rejected \cup {"submit"}
          /\ UNCHANGED << ids_used, nmsgs, mid, mprio, queue >>
  /\ UNCHANGED << probe, env, ntimeouts, finishq, signals, internalq, petitions, emptyKey, enqueued_messages,
                  starveVars, flagVars, petition_lock, poolVars, pc, localVars,
                  ncancels, pstate, hist >>

\* finish(id)
Cancel(id) ==
  /\ Events < env.events
  /\ IdChoice(id)
  /\ IF RequestAccepted(shutdown_set)
     THEN /\ ncancels < env.cancels
          /\ ids_used' = IdsUsedAfter(id)
          /\ ncancels' = ncancels + 1
          /\ finishq' = Append(finishq, id)
          /\ rejected' = rejected
     ELSE \* ManagerShutdownError
          /\ "cancel" \notin rejected
          /\ id = 1
          /\ rejected' = rejected \cup {"cancel"}
          /\ UNCHANGED << ids_used, ncancels, finishq >>
  /\ UNCHANGED << probe, env, ntimeouts, queue, signals, internalq, petitions, emptyKey, enqueued_messages,
                  starveVars, flagVars, petition_lock, poolVars, pc, localVars,
                  nmsgs, mid, mprio, pstate, hist >>

\* ------------------------------------------------------------------------
\* Intake: Processor._process
\* ------------------------------------------------------------------------
\* _prepare_petition(EmptyPetition()): the map entry "__empty__" and the put
PrepareEmpty ==
  /\ emptyKey' = TRUE
  /\ internalq' = HeapPush(internalq, 0)

\* One iteration head: the `while self.running` test, _pop_message and, for a
\* message, the first statement of _process_message (the Placeholder).  A None
\* from _pop_message (poll timeout, None sentinel, id already running) makes
\* the iteration enqueue an EmptyPetition.
IntakePoll ==
  /\ pc["intake"] = "loop"
  /\ IF finished
     THEN /\ pc' = [pc EXCEPT !["intake"] = "done"]
          /\ UNCHANGED << queue, internalq, petitions, emptyKey, intake_msg, ntimeouts >>
     ELSE IF queue = <<>>
     THEN \* Queue.get timed out
          /\ ntimeouts < env.timeouts
          /\ ntimeouts' = ntimeouts + 1
          /\ PrepareEmpty
          /\ UNCHANGED << queue, petitions, intake_msg, pc >>
     ELSE LET m == Head(queue) IN
          /\ queue' = Tail(queue)
          /\ ntimeouts' = ntimeouts
          /\ IF m = 0 \/ mid[m] \in enqueued_messages
             THEN /\ PrepareEmpty
                  /\ UNCHANGED << petitions, intake_msg, pc >>
             ELSE /\ petitions' = [petitions EXCEPT ![mid[m]] = -m]
                  /\ intake_msg' = m
                  /\ pc' = [pc EXCEPT !["intake"] = "convert"]
                  /\ UNCHANGED << internalq, emptyKey >>
  /\ UNCHANGED << probe, env, finishq, signals, enqueued_messages, starveVars, flagVars,
                  petition_lock, poolVars, adm, signal_id, snapshot, clientVars,
                  pstate, hist >>

\* _process_message after the Placeholder: on_message_preconvert (the hook
\* chain, then Manager.convert_to_petition) returns a petition (ok = TRUE), or
\* returns None or raises (ok = FALSE) and the placeholder is popped.
IntakeConvert(ok) ==
  /\ pc["intake"] = "convert"
  /\ LET id == mid[intake_msg] IN
     IF ok
     THEN /\ pc' = [pc EXCEPT !["intake"] = "prepare"]
          /\ hist' = [hist EXCEPT ![intake_msg].created = TRUE]
          /\ UNCHANGED << petitions, intake_msg >>
     ELSE /\ MayFail
          /\ hist' = [hist EXCEPT ![intake_msg].faults = @ + 1]
          /\ IF petitions[id] = 0
             THEN \* self._petitions.pop(message.id) raises KeyError
                  /\ pc' = [pc EXCEPT !["intake"] = "fatal"]
                  /\ UNCHANGED << petitions, intake_msg >>
             ELSE /\ petitions' = [petitions EXCEPT ![id] = 0]
                  /\ intake_msg' = 0
                  /\ pc' = [pc EXCEPT !["intake"] = "loop"]
  /\ UNCHANGED << probe, env, ntimeouts, qVars, internalq, emptyKey, enqueued_messages, starveVars, flagVars,
                  petition_lock, poolVars, adm, signal_id, snapshot, clientVars, pstate >>

\* ThreadPoolExecutor.submit
Submitted(kind, obj) == Append(tasks, [kind |-> kind, obj |-> obj])

\* _prepare_petition of a converted petition: the state is copied from the
\* map entry (the Placeholder, PENDING), the entry is replaced by the
\* petition, and the petition is ENQUEUED and put into the ready queue (a
\* petition that came out broken goes to _do_signal instead).
IntakePrepare ==
  /\ pc["intake"] = "prepare"
  /\ LET m == intake_msg
         id == mid[intake_msg]
     IN  IF petitions[id] = 0
         THEN \* self._petitions[petition.id] raises KeyError
              /\ pc' = [pc EXCEPT !["intake"] = "fatal"]
              /\ UNCHANGED << petitions, pstate, internalq, intake_msg, hist, tasks >>
         ELSE LET copied == StateAfterSet(pstate[m], ObjState(petitions[id])) IN
              /\ IF copied \notin BROKEN_STATES
                 THEN /\ pstate' = [pstate EXCEPT ![m] = StateAfterSet(copied, "ENQUEUED")]
                      /\ internalq' = HeapPush(internalq, m)
                      /\ hist' = [k \in Msgs |->
                                    IF k = m THEN [hist[k] EXCEPT !.met = @ \cup InQueue(internalq)]
                                    ELSE IF k \in InQueue(internalq)
                                    THEN [hist[k] EXCEPT !.met = @ \cup {m}]
                                    ELSE hist[k]]
                      /\ petitions' = [petitions EXCEPT ![id] = m]
                      /\ tasks' = tasks
                      /\ pc' = [pc EXCEPT !["intake"] = "loop"]
                 ELSE /\ pstate' = [pstate EXCEPT ![m] = copied]
                      /\ petitions' = [petitions EXCEPT ![id] = 0]
                      /\ tasks' = IF pool_shutdown THEN tasks ELSE Submitted("finish", m)
                      /\ pc' = [pc EXCEPT !["intake"] = IF pool_shutdown THEN "fatal" ELSE "loop"]
                      /\ UNCHANGED << internalq, hist >>
              /\ intake_msg' = 0
  /\ UNCHANGED << probe, env, ntimeouts, qVars, emptyKey, enqueued_messages, starveVars, flagVars,
                  petition_lock, pool_shutdown, workers, adm, signal_id, snapshot,
                  clientVars >>

\* ------------------------------------------------------------------------
\* Cancel-Intake: Processor._signal_handler
\* ------------------------------------------------------------------------
SignalHandler ==
  /\ pc["csig"] = "loop"
  /\ IF finished
     THEN /\ pc' = [pc EXCEPT !["csig"] = "done"]
          /\ UNCHANGED << finishq, signals >>
     ELSE /\ finishq # <<>>
          /\ signals' = Append(signals, Head(finishq))
          /\ finishq' = Tail(finishq)
          /\ pc' = pc
  /\ UNCHANGED << probe, env, ntimeouts, queue, internalq, petitions, emptyKey, enqueued_messages, starveVars,
                  flagVars, petition_lock, poolVars, localVars, clientVars, pstate, hist >>

\* ------------------------------------------------------------------------
\* Cancel-Dispatch: Processor._internal_signal_handler
\* ------------------------------------------------------------------------
\* The loop test, _pop_signal and the test `signal_id not in self._petitions`
SignalPop ==
  /\ pc["cdisp"] = "loop"
  /\ IF finished
     THEN /\ pc' = [pc EXCEPT !["cdisp"] = "done"]
          /\ UNCHANGED << signals, signal_id >>
     ELSE /\ signals # <<>>
          /\ signals' = Tail(signals)
          /\ IF Head(signals) # 0 /\ petitions[Head(signals)] # 0
             THEN /\ signal_id' = Head(signals)
                  /\ pc' = [pc EXCEPT !["cdisp"] = "do_signal"]
             ELSE UNCHANGED << signal_id, pc >>
  /\ UNCHANGED << probe, env, ntimeouts, queue, finishq, internalq, petitions, emptyKey, enqueued_messages,
                  starveVars, flagVars, petition_lock, poolVars, intake_msg, adm,
                  snapshot, clientVars, pstate, hist >>

\* _do_signal(signal_id): pop the map entry and submit _finish for it
SignalDo ==
  /\ pc["cdisp"] = "do_signal"
  /\ IF petitions[signal_id] = 0 \/ pool_shutdown
     THEN \* KeyError from pop, or RuntimeError from submit after the pop
          /\ pc' = [pc EXCEPT !["cdisp"] = "fatal"]
          /\ petitions' = [petitions EXCEPT ![signal_id] = 0]
          /\ tasks' = tasks
     ELSE /\ petitions' = [petitions EXCEPT ![signal_id] = 0]
          /\ tasks' = Submitted("finish", petitions[signal_id])
          /\ pc' = [pc EXCEPT !["cdisp"] = "loop"]
  /\ hist' = IF IsPlaceholder(petitions[signal_id]) /\ ~pool_shutdown
             THEN [hist EXCEPT ![MsgOf(petitions[signal_id])].phcancel = TRUE]
             ELSE hist
  /\ signal_id' = 0
  /\ UNCHANGED << probe, env, ntimeouts, qVars, internalq, emptyKey, enqueued_messages, starveVars, flagVars,
                  petition_lock, pool_shutdown, workers, intake_msg, adm, snapshot,
                  clientVars, pstate >>

\* ------------------------------------------------------------------------
\* Admission: Processor._internal_process
\* ------------------------------------------------------------------------
\* _pop_petition: one get from the ready queue, None after the poll timeout
PoppedBatch(batch) == IF internalq = <<>> THEN batch ELSE Append(batch, HeapTop(internalq))
PoppedQueue == IF internalq = <<>> THEN internalq ELSE HeapRest(internalq)

\* Head of an iteration: the `while self.running` test, then _grab_petitions up
\* to its first _pop_petition (range(1, look_ahead + 1) is evaluated here).
\* After the last i the value of qsize() decides nothing, so that read is no
\* step of its own.
AdmissionRound ==
  /\ pc["adm"] = "loop"
  /\ IF finished
     THEN /\ pc' = [pc EXCEPT !["adm"] = "done"]
          /\ UNCHANGED << adm, internalq >>
     ELSE /\ adm' = [adm EXCEPT !.n = look_ahead, !.i = 1, !.batch = PoppedBatch(<<>>),
                                !.unsuccessful = <<>>]
          /\ internalq' = PoppedQueue
          /\ pc' = [pc EXCEPT !["adm"] = IF look_ahead = 1 THEN "handle" ELSE "qsize"]
  /\ UNCHANGED << probe, env, ntimeouts, qVars, petitions, emptyKey, enqueued_messages, starveVars, flagVars,
                  petition_lock, poolVars, intake_msg, signal_id, snapshot, clientVars,
                  pstate, hist >>

\* _grab_petitions: `if i > self._internalq.qsize(): break`, else the next i
AdmissionQSize ==
  /\ pc["adm"] = "qsize"
  /\ IF adm.i > Len(internalq)
     THEN /\ pc' = [pc EXCEPT !["adm"] = "handle"]
          /\ adm' = adm
     ELSE /\ pc' = [pc EXCEPT !["adm"] = "pop"]
          /\ adm' = [adm EXCEPT !.i = @ + 1]
  /\ UNCHANGED << probe, env, ntimeouts, qVars, internalq, petitions, emptyKey, enqueued_messages, starveVars,
                  flagVars, petition_lock, poolVars, intake_msg, signal_id, snapshot,
                  clientVars, pstate, hist >>

\* _grab_petitions: the _pop_petition of a later i
AdmissionPop ==
  /\ pc["adm"] = "pop"
  /\ adm' = [adm EXCEPT !.batch = PoppedBatch(@)]
  /\ internalq' = PoppedQueue
  /\ pc' = [pc EXCEPT !["adm"] = IF adm.i = adm.n THEN "handle" ELSE "qsize"]
  /\ UNCHANGED << probe, env, ntimeouts, qVars, petitions, emptyKey, enqueued_messages, starveVars, flagVars,
                  petition_lock, poolVars, intake_msg, signal_id, snapshot, clientVars,
                  pstate, hist >>

RECURSIVE SeenAfter(_, _)
\* self._seen_petitions after the re-enqueue loop over the unsuccessful petitions
SeenAfter(seen, uns) ==
  IF uns = <<>> THEN seen
  ELSE SeenAfter([seen EXCEPT ![mid[Head(uns)]] = @ + 1], Tail(uns))

\* self._starving after the re-enqueue loop
StarvingAfter(seen, uns) ==
  starving \cup {mid[uns[j]] : j \in {x \in 1..Len(uns) :
                                        SeenAfter(seen, uns)[mid[uns[x]]] >= STARVING_SEEN}}

RECURSIVE QueueAfter(_, _)
\* the ready queue after the re-enqueue loop
QueueAfter(h, uns) ==
  IF uns = <<>> THEN h ELSE QueueAfter(HeapPush(h, Head(uns)), Tail(uns))

\* The rest of an iteration of _internal_process after _handle_petitions:
\* re-enqueue the unsuccessful petitions, then force the look-ahead to 1 while
\* a petition is starving.  (The random sleep that follows changes no state.)
EndOfRound ==
  /\ seen_petitions' = SeenAfter(seen_petitions, adm.unsuccessful)
  /\ starving' = StarvingAfter(seen_petitions, adm.unsuccessful)
  /\ internalq' = QueueAfter(internalq, adm.unsuccessful)
  /\ IF starving' # {}
     THEN /\ old_look_ahead' = look_ahead
          /\ look_ahead' = 1
     ELSE UNCHANGED << old_look_ahead, look_ahead >>
  /\ adm' = AdmInit
  /\ pc' = [pc EXCEPT !["adm"] = "loop"]

\* The extension points class Pluggable defines, each decorated with
\* @notimplemented: the attributes of a hook object that overrides none
PluggableAttributes ==
  { "on_manager_start", "on_manager_shutdown", "on_message_preconvert",
    "on_condition_check", "on_condition_fail", "on_petition_create",
    "on_petition_start", "on_petition_finish" }

\* Orcha.on_petition_check reads plug.on_petition_check of every installed
\* hook before is_implemented is asked: an AttributeError when the hook
\* object has no such attribute
OnPetitionCheckRaises ==
  env.plugs > 0 /\ "on_petition_check" \notin PluggableAttributes

\* Orcha.check evaluates petition.condition only for an ENQUEUED petition whose
\* id is not running (the `and` chain short-circuits).
CheckCallsCondition(p) == pstate[p] = "ENQUEUED" /\ mid[p] \notin enqueued_messages

\* _handle_petitions, one pass of its loop up to _do_start: the loop test and
\* popleft (an EmptyPetition breaks the loop and what is left of the batch is
\* dropped, an empty batch ends it), then self.orcha.check(petition) and the
\* except clauses.  The value check returns is not used: ready = True unless
\* check raises.
\*   "pass"   the condition, if it is called, returns: check returns (whatever
\*            it returns) or, the condition having been called, raises the
\*            AttributeError of on_petition_check: state = BROKEN
\*   "denied" the condition raises ConditionFailed: the handler calls
\*            self.orcha.on_condition_failed, which Orcha does not define, so an
\*            AttributeError leaves _handle_petitions
\*   "error"  the condition raises another exception: state = BROKEN
AdmissionHandle(outcome) ==
  /\ pc["adm"] = "handle"
  /\ IF adm.batch = <<>> \/ IsEmpty(Head(adm.batch))
     THEN /\ outcome = "pass"
          /\ EndOfRound
          /\ UNCHANGED << pstate, hist >>
     ELSE LET p == Head(adm.batch)
              popped == [adm EXCEPT !.cur = p, !.batch = Tail(adm.batch)]
          IN  /\ outcome # "pass" => CheckCallsCondition(p) /\ MayFail
              /\ UNCHANGED << internalq, starveVars >>
              /\ CASE outcome = "pass" /\ ~(CheckCallsCondition(p) /\ OnPetitionCheckRaises) ->
                        /\ pc' = [pc EXCEPT !["adm"] = "start"]
                        /\ adm' = popped
                        /\ UNCHANGED << pstate, hist >>
                   [] outcome = "pass" /\ CheckCallsCondition(p) /\ OnPetitionCheckRaises ->
                        /\ pstate' = [pstate EXCEPT ![p] = StateAfterSet(@, "BROKEN")]
                        /\ hist' = [hist EXCEPT ![p].checkerr = TRUE]
                        /\ pc' = pc
                        /\ adm' = popped
                   [] outcome = "denied" ->
                        /\ pc' = [pc EXCEPT !["adm"] = "fatal"]
                        /\ adm' = popped
                        /\ hist' = [hist EXCEPT ![p].denied = @ + 1, ![p].faults = @ + 1]
                        /\ pstate' = pstate
                   [] outcome = "error" ->
                        /\ pstate' = [pstate EXCEPT ![p] = StateAfterSet(@, "BROKEN")]
                        /\ hist' = [hist EXCEPT ![p].faults = @ + 1, ![p].checkerr = TRUE,
                                                ![p].invalid = @ \/ ~StateSetterAccepts(pstate[p], "BROKEN")]
                        /\ IF StateSetterAccepts(pstate[p], "BROKEN")
                           THEN /\ pc' = pc
                                /\ adm' = IF pstate'[p] = "ENQUEUED"
                                          THEN [popped EXCEPT !.unsuccessful = Append(@, p)]
                                          ELSE popped
                           ELSE /\ pc' = [pc EXCEPT !["adm"] = "fatal"]
                                /\ adm' = popped
  /\ UNCHANGED << probe, env, ntimeouts, qVars, petitions, emptyKey, enqueued_messages, flagVars,
                  petition_lock, poolVars, intake_msg, signal_id, snapshot, clientVars >>

\* `with self._petition_lock:` entered without waiting for the lock
LockAcquirable_Always(holder) == TRUE

\* `with self._petition_lock:` is entered when no thread holds the lock
LockAcquirable(holder) == holder = 0

\* Orcha.start_petition, first block: `with self._set_lock: add(petition.id)`
AdmissionStartAdd ==
  /\ pc["adm"] = "start"
  /\ enqueued_messages' = enqueued_messages \cup {mid[adm.cur]}
  /\ pc' = [pc EXCEPT !["adm"] = "start_lock"]
  /\ UNCHANGED << probe, env, ntimeouts, qVars, internalq, petitions, emptyKey, starveVars, flagVars,
                  petition_lock, poolVars, localVars, clientVars, pstate, hist >>

\* The rest of _do_start once start_petition has returned or raised: submit
\* the action (or nop), forget the seen count, leave the starving set and
\* restore the look-ahead when nobody starves.
DoStartRest(p, healthy) ==
  IF pool_shutdown
  THEN \* submit raises RuntimeError
       /\ pc' = [pc EXCEPT !["adm"] = "fatal"]
       /\ UNCHANGED << tasks, starveVars >>
  ELSE /\ tasks' = Submitted(IF healthy THEN "action" ELSE "nop", p)
       /\ seen_petitions' = [seen_petitions EXCEPT ![mid[p]] = 0]
       /\ starving' = starving \ {mid[p]}
       /\ look_ahead' = IF starving' = {} THEN old_look_ahead ELSE look_ahead
       /\ old_look_ahead' = old_look_ahead
       /\ pc' = [pc EXCEPT !["adm"] = "handle"]

\* Orcha.start_petition, second block: take the petition lock; an ENQUEUED
\* petition becomes RUNNING and Manager.on_start is entered; any other state
\* makes start_petition return petition.state.is_running at once.
AdmissionStartLock ==
  /\ pc["adm"] = "start_lock"
  /\ LockAcquirable(petition_lock)
  /\ LET p == adm.cur IN
     IF pstate[p] = "ENQUEUED"
     THEN /\ pstate' = [pstate EXCEPT ![p] = StateAfterSet(@, "RUNNING")]
          /\ hist' = [hist EXCEPT ![p].start = @ + 1]
          /\ petition_lock' = -1
          /\ pc' = [pc EXCEPT !["adm"] = "on_start"]
          /\ UNCHANGED << tasks, starveVars >>
     ELSE /\ DoStartRest(p, pstate[p] = "RUNNING")
          /\ UNCHANGED << pstate, hist, petition_lock >>
  /\ UNCHANGED << probe, env, ntimeouts, qVars, internalq, petitions, emptyKey, enqueued_messages, flagVars,
                  pool_shutdown, workers, localVars, clientVars >>

\* Manager.on_start returns True or False, or raises (then _do_start sets
\* BROKEN); the lock is released and _do_start goes on.
AdmissionOnStart(outcome) ==
  /\ pc["adm"] = "on_start"
  /\ outcome # "true" => MayFail
  /\ petition_lock' = 0
  /\ hist' = IF outcome = "true" THEN hist
             ELSE [hist EXCEPT ![adm.cur].faults = @ + 1,
                               ![adm.cur].invalid = @ \/ (outcome = "raise" /\
                                    ~StateSetterAccepts(pstate[adm.cur], "BROKEN"))]
  /\ LET p == adm.cur IN
     IF outcome = "raise"
     THEN /\ pstate' = [pstate EXCEPT ![p] = StateAfterSet(@, "BROKEN")]
          /\ IF StateSetterAccepts(pstate[p], "BROKEN")
             THEN DoStartRest(p, FALSE)
             ELSE /\ pc' = [pc EXCEPT !["adm"] = "fatal"]
                  /\ UNCHANGED << tasks, starveVars >>
     ELSE /\ DoStartRest(p, outcome = "true")
          /\ pstate' = pstate
  /\ UNCHANGED << probe, env, ntimeouts, qVars, internalq, petitions, emptyKey, enqueued_messages, flagVars,
                  pool_shutdown, workers, localVars, clientVars >>

\* ------------------------------------------------------------------------
\* Worker pool: the tasks Admission, Cancel-Dispatch and shutdown submit
\* ------------------------------------------------------------------------
\* Orcha.is_running(petition): the id is looked up; an EmptyPetition is never started
IdRunning(o) == ~IsEmpty(o) /\ ObjId(o) \in enqueued_messages

\* self._petitions.pop(p.id, None) in the done-callback
CallbackPop(p) == [petitions EXCEPT ![mid[p]] = 0]

\* _finish up to the call of finish_petition.  The state after it: a petition
\* in a running state is assigned CANCELLED; a stopped state raises ValueError
\* and any other state AttributeError before the assignment.
FinishState(cur) ==
  IF cur \notin STOPPED_STATES /\ cur \in RUNNING_STATES
  THEN StateAfterSet(cur, "CANCELLED") ELSE cur

\* _finish with p.terminate() moved into the `finally` block
FinishTerminates_InFinally(cur) == TRUE

\* _finish calls p.terminate() when no exception came before it.  Whatever
\* terminate does (True, False, an exception), finish_petition comes next.
FinishTerminates(cur) ==
  /\ cur \notin STOPPED_STATES
  /\ cur \in RUNNING_STATES
  /\ StateSetterAccepts(cur, "CANCELLED")

\* _finish's `except` block: an exception before or in terminate() (ValueError
\* for a stopped state, AttributeError for a state that is not running,
\* InvalidStateError) puts two lines of text into the reply queue
FinishDiagnostics(cur) == IF FinishTerminates(cur) THEN <<>> ELSE << "text", "text" >>

\* finish_petition has returned to its caller: _finish goes on to p.finish()
\* when p has a reply queue (Placeholder and EmptyPetition have none); the
\* done-callback of an action or of nop ends
AfterFinishPetition(w) ==
  IF workers[w].kind = "finish" /\ IsPetition(workers[w].obj)
  THEN [workers EXCEPT ![w].pc = "sentinel"]
  ELSE [workers EXCEPT ![w] = IdleWorker]

\* The pool threads are interchangeable: the idle one a task goes to
Taker == CHOOSE w \in Workers : workers[w].pc = "idle" /\ \A v \in Workers : workers[v].pc = "idle" => w <= v

\* The threads of the pool: max_workers of them
Pool == 1..env.workers

\* A pool thread takes the next task.
\*   action: the petition's action starts
\*   nop:    nop returns at once and the done-callback pops the map entry
\*   finish: _finish runs up to finish_petition
WorkerTake(w) ==
  /\ workers[w].pc = "idle"
  /\ w = Taker
  /\ w \in Pool
  /\ tasks # <<>>
  /\ tasks' = Tail(tasks)
  /\ LET t == Head(tasks) IN
     CASE t.kind = "action" ->
            /\ workers' = [workers EXCEPT ![w] = [pc |-> "run", kind |-> "action", obj |-> t.obj]]
            /\ hist' = [hist EXCEPT ![t.obj].action = "run"]
            /\ UNCHANGED << petitions, pstate >>
       [] t.kind = "nop" ->
            /\ workers' = [workers EXCEPT ![w] = [pc |-> "fp_check", kind |-> "nop", obj |-> t.obj]]
            /\ petitions' = CallbackPop(t.obj)
            /\ UNCHANGED << hist, pstate >>
       [] t.kind = "finish" ->
            /\ workers' = [workers EXCEPT ![w] = [pc |-> "fp_check", kind |-> "finish", obj |-> t.obj]]
            /\ IF IsPetition(t.obj)
               THEN /\ pstate' = [pstate EXCEPT ![t.obj] = FinishState(@)]
                    /\ hist' = [hist EXCEPT
                         ![t.obj].cancelled = @ \/ (pstate[t.obj] # "CANCELLED"
                                                     /\ pstate'[t.obj] = "CANCELLED"),
                         ![t.obj].term = IF FinishTerminates(pstate[t.obj]) THEN @ + 1 ELSE @,
                         ![t.obj].frames = @ \o FinishDiagnostics(pstate[t.obj]),
                         ![t.obj].late = @ \/ (FinishDiagnostics(pstate[t.obj]) # <<>>
                                                /\ pstate[t.obj] \in TERMINAL_STATES)]
               ELSE UNCHANGED << pstate, hist >>
            /\ petitions' = petitions
  /\ UNCHANGED << probe, env, ntimeouts, qVars, internalq, emptyKey, enqueued_messages, starveVars, flagVars,
                  petition_lock, pool_shutdown, pc, localVars, clientVars >>

\* Petition.action is the plugin's code: it returns on its own, or, in a run
\* with blocking actions, only once terminate() has been called on p
ActionMayReturn(p) == env.blocking => hist[p].term > 0

\* The action returns or raises; the done-callback starts: BROKEN after an
\* exception, then the map entry of the petition's id is popped.
WorkerActionEnd(w, raised) ==
  /\ workers[w].pc = "run"
  /\ raised => MayFail
  /\ ActionMayReturn(workers[w].obj)
  /\ LET p == workers[w].obj IN
     /\ hist' = [hist EXCEPT ![p].action = "end", ![p].faults = IF raised THEN @ + 1 ELSE @,
                              ![p].invalid = @ \/ (raised /\ ~StateSetterAccepts(pstate[p], "BROKEN"))]
     /\ IF raised
        THEN /\ pstate' = [pstate EXCEPT ![p] = StateAfterSet(@, "BROKEN")]
             /\ IF StateSetterAccepts(pstate[p], "BROKEN")
                THEN /\ petitions' = CallbackPop(p)
                     /\ workers' = [workers EXCEPT ![w].pc = "fp_check"]
                ELSE \* InvalidStateError ends the callback
                     /\ petitions' = petitions
                     /\ workers' = [workers EXCEPT ![w] = IdleWorker]
        ELSE /\ pstate' = pstate
             /\ petitions' = CallbackPop(p)
             /\ workers' = [workers EXCEPT ![w].pc = "fp_check"]
  /\ UNCHANGED << probe, env, ntimeouts, qVars, internalq, emptyKey, enqueued_messages, starveVars, flagVars,
                  petition_lock, tasks, pool_shutdown, pc, localVars, clientVars >>

\* Orcha.finish_petition: `if self.is_running(petition)`
WorkerFinishCheck(w) ==
  /\ workers[w].pc = "fp_check"
  /\ workers' = IF IdRunning(workers[w].obj)
                THEN [workers EXCEPT ![w].pc = "fp_remove"]
                ELSE AfterFinishPetition(w)
  /\ UNCHANGED << probe, env, ntimeouts, qVars, internalq, petitions, emptyKey, enqueued_messages, starveVars,
                  flagVars, petition_lock, tasks, pool_shutdown, pc, localVars, clientVars,
                  pstate, hist >>

\* Orcha.finish_petition: `self._enqueued_messages.remove(petition.id)`, a
\* KeyError when another thread removed the id after the test above
WorkerFinishRemove(w) ==
  /\ workers[w].pc = "fp_remove"
  /\ LET id == ObjId(workers[w].obj) IN
     IF id \in enqueued_messages
     THEN /\ enqueued_messages' = enqueued_messages \ {id}
          /\ workers' = [workers EXCEPT ![w].pc = "fp_lock"]
     ELSE /\ enqueued_messages' = enqueued_messages
          /\ workers' = [workers EXCEPT ![w] = IdleWorker]
  /\ UNCHANGED << probe, env, ntimeouts, qVars, internalq, petitions, emptyKey, starveVars, flagVars,
                  petition_lock, tasks, pool_shutdown, pc, localVars, clientVars,
                  pstate, hist >>

\* Orcha.finish_petition under the petition lock: FINISHED unless CANCELLED or
\* BROKEN, then the finish hooks and, the state not being DONE, Manager.on_finish
WorkerFinishLock(w) ==
  /\ workers[w].pc = "fp_lock"
  /\ LockAcquirable(petition_lock)
  /\ LET o == workers[w].obj
         cur == ObjState(o)
         new == IF cur \in {"CANCELLED", "BROKEN"} THEN cur ELSE "FINISHED"
     IN  IF StateSetterAccepts(cur, new) /\ IsPetition(o)
         THEN /\ pstate' = [pstate EXCEPT ![o] = new]
              /\ IF new # "DONE"
                 THEN /\ hist' = [hist EXCEPT ![o].finish = @ + 1]
                      /\ petition_lock' = w
                      /\ workers' = [workers EXCEPT ![w].pc = "on_finish"]
                 ELSE /\ workers' = [workers EXCEPT ![w] = IdleWorker]
                      /\ UNCHANGED << hist, petition_lock >>
         ELSE \* InvalidStateError leaves finish_petition and the task
              /\ workers' = [workers EXCEPT ![w] = IdleWorker]
              /\ hist' = [hist EXCEPT ![MsgOf(o)].invalid = TRUE]
              /\ UNCHANGED << pstate, petition_lock >>
  /\ UNCHANGED << probe, env, ntimeouts, qVars, internalq, petitions, emptyKey, enqueued_messages, starveVars,
                  flagVars, tasks, pool_shutdown, pc, localVars, clientVars >>

\* Manager.on_finish (the manager of samples/resources) sends the return code
\* with petition.finish(0) and returns; the petition lock is released
WorkerOnFinishReturn(w) ==
  /\ workers[w].pc = "on_finish"
  /\ petition_lock' = 0
  /\ hist' = [hist EXCEPT ![workers[w].obj].frames = Append(@, "code")]
  /\ workers' = AfterFinishPetition(w)
  /\ UNCHANGED << probe, env, ntimeouts, qVars, internalq, petitions, emptyKey, enqueued_messages, starveVars,
                  flagVars, tasks, pool_shutdown, pc, localVars, clientVars, pstate >>

\* _finish's `finally` block after finish_petition: p.finish() puts None, the
\* sentinel, into the reply queue
WorkerSentinel(w) ==
  /\ workers[w].pc = "sentinel"
  /\ LET p == workers[w].obj IN
     hist' = [hist EXCEPT ![p].frames = Append(@, "none"),
                          ![p].late = @ \/ pstate[p] \in TERMINAL_STATES]
  /\ workers' = [workers EXCEPT ![w] = IdleWorker]
  /\ UNCHANGED << probe, env, ntimeouts, qVars, internalq, petitions, emptyKey, enqueued_messages, starveVars,
                  flagVars, petition_lock, tasks, pool_shutdown, pc, localVars, clientVars, pstate >>

\* ------------------------------------------------------------------------
\* Shutdown: Orcha.shutdown, Processor.shutdown, Processor._fatal_error
\* ------------------------------------------------------------------------
ProcessorThreads == {"intake", "adm", "csig", "cdisp"}

\* Orcha.shutdown without its test of the shutdown event
ShutdownEntry_NoTest(flag) == "sd_set"

\* Orcha.shutdown begins with the test of the shutdown event: EEXIST is
\* returned when it is set, otherwise the teardown starts
ShutdownEntry(flag) == IF flag THEN "eexist" ELSE "sd_set"

\* _fatal_error in a Processor thread: running = False, then Orcha.shutdown
\* up to its test of the shutdown flag (EEXIST when it is set)
FatalError(t) ==
  /\ pc[t] = "fatal"
  /\ finished' = TRUE
  /\ pc' = [pc EXCEPT ![t] = ShutdownEntry(shutdown_set)]
  /\ UNCHANGED << probe, env, ntimeouts, qVars, internalq, petitions, emptyKey, enqueued_messages, starveVars,
                  shutdown_set, petition_lock, poolVars, localVars, clientVars, pstate, hist >>

\* Orcha.shutdown called on the main thread (signal handler, end of serve):
\* the test of the shutdown flag
MainShutdown ==
  /\ pc["main"] \in {"loop", "sd_done", "sd_failed"}
  /\ pc["main"] = "loop" => env.stops > 0 /\ Events < env.events
  /\ pc' = [pc EXCEPT !["main"] = ShutdownEntry(shutdown_set)]
  /\ UNCHANGED << probe, env, ntimeouts, qVars, internalq, petitions, emptyKey, enqueued_messages, starveVars,
                  flagVars, petition_lock, poolVars, localVars, clientVars, pstate, hist >>

\* Orcha.shutdown sets the flag; Processor.shutdown clears running and puts
\* the None sentinels
ShutdownSet(t) ==
  /\ pc[t] = "sd_set"
  /\ shutdown_set' = TRUE
  /\ finished' = TRUE
  /\ queue' = Append(queue, 0)
  /\ finishq' = Append(finishq, 0)
  /\ pc' = [pc EXCEPT ![t] = "sd_join"]
  /\ UNCHANGED << probe, env, ntimeouts, signals, internalq, petitions, emptyKey, enqueued_messages, starveVars,
                  petition_lock, poolVars, localVars, clientVars, pstate, hist >>

\* The keys of self._petitions (0 stands for "__empty__")
PetitionKeys == {i \in Ids : petitions[i] # 0} \cup (IF emptyKey THEN {0} ELSE {})

\* Processor.shutdown joins the four threads, 5 s each at most.  A Processor
\* thread that runs the shutdown joins itself: RuntimeError, which ends both
\* shutdown methods (EINVAL).  The main thread goes on to set(self._petitions).
ShutdownJoin(t) ==
  /\ pc[t] = "sd_join"
  /\ IF t \in ProcessorThreads
     THEN /\ pc' = [pc EXCEPT ![t] = "sd_failed"]
          /\ snapshot' = snapshot
     ELSE /\ pc' = [pc EXCEPT ![t] = "sd_cancel"]
          /\ snapshot' = PetitionKeys
  /\ UNCHANGED << probe, env, ntimeouts, qVars, internalq, petitions, emptyKey, enqueued_messages, starveVars,
                  flagVars, petition_lock, poolVars, intake_msg, adm, signal_id,
                  clientVars, pstate, hist >>

\* Processor.shutdown: _do_signal(id) for one id of the snapshot; after the
\* last one ThreadPoolExecutor.shutdown begins
ShutdownCancel(key) ==
  /\ pc["main"] = "sd_cancel"
  /\ IF snapshot = {}
     THEN /\ key = 0
          /\ pool_shutdown' = TRUE
          /\ pc' = [pc EXCEPT !["main"] = "sd_pool"]
          /\ UNCHANGED << petitions, emptyKey, tasks, snapshot >>
     ELSE /\ key \in snapshot
          /\ snapshot' = snapshot \ {key}
          /\ pool_shutdown' = pool_shutdown
          /\ IF key = 0
             THEN /\ emptyKey' = FALSE
                  /\ petitions' = petitions
                  /\ tasks' = Submitted("finish", 0)
                  /\ pc' = pc
             ELSE IF petitions[key] = 0
             THEN \* KeyError from pop: both shutdown methods end (EINVAL)
                  /\ pc' = [pc EXCEPT !["main"] = "sd_failed"]
                  /\ UNCHANGED << petitions, emptyKey, tasks >>
             ELSE /\ petitions' = [petitions EXCEPT ![key] = 0]
                  /\ tasks' = Submitted("finish", petitions[key])
                  /\ UNCHANGED << emptyKey, pc >>
  /\ UNCHANGED << probe, env, ntimeouts, qVars, internalq, enqueued_messages, starveVars, flagVars,
                  petition_lock, workers, intake_msg, adm, signal_id, clientVars,
                  pstate, hist >>

\* ThreadPoolExecutor.shutdown(wait=True) returns when every task is done;
\* then the IPC manager is shut down
ShutdownPool ==
  /\ pc["main"] = "sd_pool"
  /\ tasks = <<>>
  /\ \A w \in Workers : workers[w].pc = "idle"
  /\ pc' = [pc EXCEPT !["main"] = "sd_done"]
  /\ UNCHANGED << probe, env, ntimeouts, qVars, internalq, petitions, emptyKey, enqueued_messages, starveVars,
                  flagVars, petition_lock, poolVars, localVars, clientVars, pstate, hist >>

\* ------------------------------------------------------------------------
\* The engine
\* ------------------------------------------------------------------------
Next ==
  \/ \E id \in Ids, prio \in Prios : Submit(id, prio)
  \/ \E id \in Ids : Cancel(id)
  \/ IntakePoll
  \/ \E ok \in BOOLEAN : IntakeConvert(ok)
  \/ IntakePrepare
  \/ SignalHandler
  \/ SignalPop
  \/ SignalDo
  \/ AdmissionRound
  \/ AdmissionQSize
  \/ AdmissionPop
  \/ \E outcome \in {"pass", "denied", "error"} : AdmissionHandle(outcome)
  \/ AdmissionStartAdd
  \/ AdmissionStartLock
  \/ \E outcome \in {"true", "false", "raise"} : AdmissionOnStart(outcome)
  \/ \E w \in Workers : WorkerTake(w)
  \/ \E w \in Workers, raised \in BOOLEAN : WorkerActionEnd(w, raised)
  \/ \E w \in Workers : WorkerFinishCheck(w)
  \/ \E w \in Workers : WorkerFinishRemove(w)
  \/ \E w \in Workers : WorkerFinishLock(w)
  \/ \E w \in Workers : WorkerOnFinishReturn(w)
  \/ \E w \in Workers : WorkerSentinel(w)
  \/ \E t \in ProcessorThreads : FatalError(t)
  \/ MainShutdown
  \/ \E t \in Threads : ShutdownSet(t)
  \/ \E t \in Threads : ShutdownJoin(t)
  \/ \E key \in {0} \cup Ids : ShutdownCancel(key)
  \/ ShutdownPool

Spec == Init /\ [][Next]_vars

\* ------------------------------------------------------------------------
\* The claims about the engine
\* ------------------------------------------------------------------------
\* C2: for every petition, in every interleaving of completion, failure,
\* cancellation and shutdown, Manager.on_finish is invoked at most once.
C2_OnFinishAtMostOnce == \A k \in Msgs : hist[k].finish <= 1

\* The engine is serving and has nothing left to do: every queue is empty, the
\* four Processor threads wait at the head of their loops, the pool is idle.
Idle ==
  /\ ~finished
  /\ queue = <<>> /\ finishq = <<>> /\ signals = <<>> /\ internalq = <<>>
  /\ \A t \in ProcessorThreads : pc[t] = "loop"
  /\ tasks = <<>>
  /\ \A w \in Workers : workers[w].pc = "idle"

\* C3: every petition Intake created gets Manager.on_finish exactly once, also
\* on the failure paths.  As a property of finite runs: once the engine has
\* nothing left to do, on_finish has been invoked exactly once for every
\* petition that was created.
C3_FinishedOnceWhenIdle ==
  Idle => \A k \in Msgs : hist[k].created => hist[k].finish = 1

\* C4: whenever on_finish is invoked for a petition, on_start was invoked for it
\* earlier or the petition reached BROKEN without being admitted; never for a
\* petition that was only cancelled while enqueued.
C4_FinishOnlyAfterStart ==
  \A k \in Msgs : hist[k].finish > 0 => (hist[k].start > 0 \/ pstate[k] = "BROKEN")

C6_StartActionFinishOrder ==
  \A k \in Msgs :
    /\ hist[k].action # "no" => hist[k].start > 0 /\ ~(pc["adm"] = "on_start" /\ adm.cur = k)
    /\ \A w \in Workers :
         workers[w].pc = "on_finish" /\ workers[w].obj = k => hist[k].action # "run"

\* C7: of two petitions that were ENQUEUED in the ready queue together, the one
\* with the strictly smaller priority number is started no later than the
\* other: when q has been started, p has been started too (or is out of the
\* race: broken or cancelled).
C7_LowerPriorityNumberFirst ==
  \A p, q \in Msgs :
    (q \in hist[p].met /\ mprio[p] < mprio[q] /\ hist[q].start > 0)
      => (hist[p].start > 0 \/ pstate[p] # "ENQUEUED")

\* The premise of C9 and C10 is never met: _handle_petitions hands no petition
\* back as unsuccessful (a ConditionFailed denial ends Admission, any other
\* exception breaks the petition, a returned value is not used), so no seen
\* count leaves 0, nothing starves and the look-ahead is never forced to 1.
StarvationIsNeverEntered ==
  /\ adm.unsuccessful = <<>>
  /\ \A id \in Ids : seen_petitions[id] = 0
  /\ starving = {}
  /\ look_ahead = old_look_ahead


\* Every pool thread executes an action that will not return before
\* terminate() is called on its petition.  terminate() is called by _finish
\* only, and _finish needs a pool thread: the pool stays like this for ever.
PoolStuck == \A w \in Pool : workers[w].pc = "run" /\ ~ActionMayReturn(workers[w].obj)

\* C13: a cancel accepted while the petition is ENQUEUED or RUNNING leads to
\* terminate() and to the sentinel in the reply queue, for every pool size.
\* As a property of finite runs: the _finish task of an ENQUEUED or RUNNING
\* petition never waits in the pool's queue while the pool is stuck.
C13_CancelReachesTerminate ==
  \A i \in 1..Len(tasks) :
     (tasks[i].kind = "finish" /\ IsPetition(tasks[i].obj)
        /\ pstate[tasks[i].obj] \in {"ENQUEUED", "RUNNING"}) => ~PoolStuck


\* Orcha.finish_petition has run to its end for petition k
Finalized(k) ==
  /\ hist[k].finish > 0
  /\ \A w \in Workers : ~(workers[w].pc = "on_finish" /\ workers[w].obj = k)

\* C14: after the Finalizer has completed for a petition its state is
\* terminal, DONE or BROKEN; no finalized petition is left in FINISHED or
\* CANCELLED.
C14_FinalizedIsTerminal ==
  \A k \in Msgs : Finalized(k) => pstate[k] \in TERMINAL_STATES


\* C15: once the shutdown flag is set, every further submit and cancel fails
\* with ManagerShutdownError and puts nothing into the submit queue or the
\* cancel-in queue.
C15_RejectedAfterShutdown ==
  [][(shutdown_set /\ (nmsgs' # nmsgs \/ ncancels' # ncancels \/ rejected' # rejected))
       => /\ rejected' # rejected
          /\ nmsgs' = nmsgs /\ ncancels' = ncancels
          /\ queue' = queue /\ finishq' = finishq]_vars

\* C15 witness: after shutdown a submit and a cancel have both been rejected
C15_BothCallsRejected == shutdown_set /\ rejected = {"submit", "cancel"}


\* C16: a call of shutdown on the main thread after an earlier call has
\* returned gives EEXIST and repeats no step of the teardown: no sentinel is
\* put, no petition is signalled, the flags and the pool are left alone.
C16_SecondShutdownIsEexist ==
  [][(pc["main"] \in {"sd_done", "sd_failed"} /\ pc'["main"] # pc["main"])
       => /\ pc'["main"] = "eexist"
          /\ UNCHANGED << qVars, internalq, petitions, emptyKey, flagVars, poolVars,
                          snapshot, pstate, hist >>]_vars

\* C16 witness: the second call has returned EEXIST after a complete teardown
C16_SecondCallReturned ==
  pc["main"] = "eexist" /\ shutdown_set /\ pool_shutdown /\ Len(queue) + Len(finishq) <= 2


\* C17: shutdown completes (threads joined, pool shut down) provided every
\* action returns once terminate() has been called on its petition.  As a
\* property of finite runs: ThreadPoolExecutor.shutdown, which waits for every
\* task, is never entered with the pool stuck.
C17_ShutdownCompletes == pc["main"] = "sd_pool" => ~PoolStuck


\* C18: when an exception escapes the loop of a Processor thread, the shutdown
\* flag is set and the full teardown runs to its end on that thread.  As a
\* property of finite runs: when the shutdown that such a thread started has
\* ended, the sentinels are in the queues, no petition id is left in the map
\* and the pool is shut down.
C18_FatalTeardownCompletes ==
  \A t \in ProcessorThreads :
     pc[t] = "sd_failed" => /\ shutdown_set /\ finished
                            /\ PetitionKeys = {}
                            /\ pool_shutdown


\* C19: once a petition's state is DONE or BROKEN, the server puts no further
\* frame into its reply queue, also during cancellation and during the
\* cancel-all step of shutdown.  Checked for the frames that _finish puts (the
\* diagnostic text and the sentinel).
C19_NoFrameAfterTerminalState == \A k \in Msgs : ~hist[k].late

\* C20: the frames put into one reply queue hold at most one terminal frame
\* (an integer code or the sentinel), and no frame follows it.
C20_OneTerminalFrameLast ==
  \A k \in Msgs : \A i \in 1..Len(hist[k].frames) :
     hist[k].frames[i] \in {"code", "none"} => i = Len(hist[k].frames)

\* C21: a cancel that Cancel-Dispatch processes while the map holds only the
\* Placeholder of the id is not lost: the petition of that message is never
\* started, is routed to cancellation, and Intake keeps running.  Checked for
\* its last part: Intake is not ended by a fatal error while it processes a
\* message whose conversion gave a petition and whose Placeholder
\* Cancel-Dispatch has popped.
C21_IntakeSurvivesCancelOfPlaceholder ==
  \A k \in Msgs :
     (hist[k].phcancel /\ hist[k].created) => ~(pc["intake"] = "fatal" /\ intake_msg = k)

\* C22: when the admission check of a petition raises an exception other than
\* ConditionFailed, the petition becomes BROKEN and goes to the Finalizer:
\* on_finish is invoked for it and it leaves the petition map.  As a property
\* of finite runs: once the engine has nothing left to do, this has happened
\* for every such petition.
C22_BrokenInCheckIsFinalized ==
  Idle => \A k \in Msgs :
            hist[k].checkerr => /\ pstate[k] = "BROKEN"
                                /\ hist[k].finish > 0
                                /\ petitions[mid[k]] # k

\* C23: when the admission check of an ENQUEUED petition raises
\* ConditionFailed, the condition-fail hook is called, the petition stays
\* ENQUEUED and is re-queued with its seen-count incremented, and Admission
\* keeps running (the server is not shut down).  Checked for its last part:
\* after a denial Admission is neither in its fatal-error path nor in the
\* shutdown that path starts.
C23_AdmissionSurvivesDenial ==
  (\E k \in Msgs : hist[k].denied > 0) =>
     pc["adm"] \notin {"fatal", "sd_set", "sd_join", "sd_failed", "eexist"}

\* the threads that are inside Manager.on_start or Manager.on_finish
InManagerCall ==
  {w \in Workers : workers[w].pc = "on_finish"} \cup
  (IF pc["adm"] = "on_start" THEN {-1} ELSE {})

\* C24: on_start and on_finish are mutually exclusive, for the same and for
\* different petitions: at most one thread is inside one of them, and it holds
\* the petition lock; the changes ENQUEUED -> RUNNING and RUNNING -> FINISHED
\* are made by the thread that takes the lock, inside its critical section.
C24_ManagerCallsExclusive ==
  /\ [](Cardinality(InManagerCall) <= 1 /\ \A t \in InManagerCall : petition_lock = t)
  /\ [][\A k \in Msgs :
          /\ (pstate[k] = "ENQUEUED" /\ pstate'[k] = "RUNNING")
                => (petition_lock = 0 /\ petition_lock' = -1)
          /\ (pstate[k] = "RUNNING" /\ pstate'[k] = "FINISHED")
                => (petition_lock = 0 /\ petition_lock' \in Workers)]_vars

\* C24 witness: a pool thread is inside on_finish and Admission, about to
\* start the next petition, waits for the petition lock
C24_StartWaitsForFinish ==
  /\ pc["adm"] = "start_lock"
  /\ \E w \in Workers : workers[w].pc = "on_finish" /\ petition_lock = w

\* the threads that have passed the test of the shutdown event in
\* Orcha.shutdown and carry out (or have carried out) the teardown
InTeardown ==
  {t \in Threads : pc[t] \in {"sd_set", "sd_join", "sd_cancel", "sd_pool", "sd_done", "sd_failed"}}

\* C25: concurrent calls of shutdown are serialized: the teardown is carried
\* out by exactly one of the calling threads, every other call returns EEXIST.
C25_OneThreadTearsDown == Cardinality(InTeardown) <= 1

\* C26: the engine itself never attempts an illegal state transition: no
\* assignment to a petition's state made by Intake, Admission, the completion
\* callback, the Finalizer or the cancel task raises InvalidStateError.
C26_NoInvalidStateError == \A k \in Msgs : ~hist[k].invalid

\* the id of an object in the ready queue; 0 stands for "__empty__"
ReadyId(o) == IF IsEmpty(o) THEN 0 ELSE ObjId(o)

\* C27: the ready queue never holds two petitions with the same id, the
\* EmptyPetitions that Intake enqueues included.
C27_ReadyIdsDistinct ==
  \A i, j \in 1..Len(internalq) : i # j => ReadyId(internalq[i]) # ReadyId(internalq[j])

\* _finish(k) has been submitted and has not ended: k is being cancelled
BeingCancelled(k) ==
  \/ \E i \in 1..Len(tasks) : tasks[i].kind = "finish" /\ tasks[i].obj = k
  \/ \E w \in Workers : workers[w].kind = "finish" /\ workers[w].obj = k

\* C28: every live petition has exactly one entry in the petition map, keyed
\* by its id, and the entry is that petition.  Checked for the petitions that
\* wait in the ready queue in state ENQUEUED and are not being cancelled (a
\* map holds one entry per key, so "exactly one" is "the entry is k").
C28_LivePetitionHasItsEntry ==
  \A k \in InQueue(internalq) :
     (pstate[k] = "ENQUEUED" /\ ~BeingCancelled(k)) => petitions[mid[k]] = k

\* C29: in every reachable state the set of running ids is a subset of the
\* keys of the petition map.
C29_RunningIdsAreKeys == enqueued_messages \subseteq {i \in Ids : petitions[i] # 0}

\* C30: every mutation of a petition's state is made while the mutating
\* thread holds the petition lock.  Checked for the petitions that have been
\* enqueued (other threads can reach them): a step that changes the state of
\* such a petition is a step of a thread that has taken the lock.
C30_StateChangesUnderLock ==
  [][\A k \in Msgs :
       (pstate[k] # "PENDING" /\ pstate'[k] # pstate[k]) => petition_lock' # 0]_vars

\* The engine is quiescent: the submit and cancel queues are empty, no user
\* petition is in the ready queue or in a batch of Admission, the Processor
\* threads wait at the head of their loops, no task is pending or running.
Quiescent ==
  /\ ~finished
  /\ queue = <<>> /\ finishq = <<>> /\ signals = <<>>
  /\ InQueue(internalq) = {}
  /\ \A t \in ProcessorThreads : pc[t] = "loop"
  /\ tasks = <<>>
  /\ \A w \in Workers : workers[w].pc = "idle"

\* C31: whenever the engine is quiescent, the running-ids set is empty and the
\* petition map holds no user petition: every petition Intake created has
\* been removed, whatever path it took.
C31_QuiescentHoldsNothing ==
  Quiescent => /\ enqueued_messages = {}
               /\ \A i \in Ids : petitions[i] = 0

\* C32: for every petition with a reply queue on which the cancel task
\* (_finish) runs, the task pushes exactly one terminal sentinel after calling
\* the Finalizer, whatever happened before.  As a property of the steps: a
\* cancel task on a petition ends only with the step that puts the sentinel,
\* and that step appends one frame, the sentinel.
C32_CancelTaskEndsWithSentinel ==
  [][\A w \in Workers :
       (/\ workers[w].kind = "finish"
        /\ IsPetition(workers[w].obj)
        /\ workers'[w] = IdleWorker)
       => /\ workers[w].pc = "sentinel"
          /\ hist'[workers[w].obj].frames = Append(hist[workers[w].obj].frames, "none")]_vars

\* Admission is between the check of petition adm.cur, which evaluated the
\* petition's condition (the petition is ENQUEUED and no other petition has
\* its id), and the critical region of start_petition for it
BetweenCheckAndStart ==
  /\ pc["adm"] \in {"start", "start_lock"}
  /\ IsPetition(adm.cur)
  /\ pstate[adm.cur] = "ENQUEUED"
  /\ \A k \in Msgs \ {adm.cur} : mid[k] # mid[adm.cur]

\* C33: the admission condition check of a petition and the following
\* on_start of that petition execute in one critical region: between a
\* successful condition check of p and on_start(p), no on_start or on_finish
\* of any other petition executes.
C33_CheckAndStartInOneRegion ==
  [][BetweenCheckAndStart =>
       \A k \in Msgs \ {adm.cur} : /\ hist'[k].finish = hist[k].finish
                                   /\ hist'[k].start = hist[k].start]_vars

\* C34: installing a hook object that implements none of the extension points
\* leaves the engine's behaviour unchanged: the same petitions are admitted,
\* go through the same state sequences and produce the same frames as with no
\* hook installed.  With no hook installed, a petition becomes BROKEN only
\* when a call into the plugin fails; checked is that this stays so with
\* hooks installed: in a run in which no plugin call has failed, no petition
\* is BROKEN.
C34_NoBrokenWithoutFault ==
  NFaults = 0 => \A k \in Msgs : pstate[k] # "BROKEN"

\* the same without hooks
C34_NoBrokenWithoutFaultNorHook ==
  (NFaults = 0 /\ env.plugs = 0) => \A k \in Msgs : pstate[k] # "BROKEN"

\* the petitions Admission holds: the batch it dequeued and has not handled
\* yet, the petition it is handling, the ones it will re-enqueue
HeldByAdmission ==
  {adm.batch[j] : j \in 1..Len(adm.batch)} \cup {adm.cur}
     \cup {adm.unsuccessful[j] : j \in 1..Len(adm.unsuccessful)}

\* C35: no ENQUEUED petition is ever lost: a user petition that is ENQUEUED
\* (and so has not been cancelled) is always in the ready queue or in the
\* batch the Admission worker is processing, also when the round stops at an
\* EmptyPetition and when Intake inserts petitions while the batch is being
\* dequeued.
C35_EnqueuedIsQueuedOrHeld ==
  \A k \in Msgs :
     pstate[k] = "ENQUEUED" => (k \in InQueue(internalq) \/ k \in HeldByAdmission)

\* C36: no interleaving of Intake, Cancel-Dispatch and the completion
\* callback acting on the same id makes a top-level worker fail: removing an
\* id from the petition map never fails because another thread removed it
\* first.  As a property of the steps: Cancel-Dispatch does not go from
\* _do_signal, nor Intake from the conversion or from _prepare_petition, into
\* the fatal-error path with the map entry of the id missing.
C36_NoFatalFromMissingEntry ==
  [][/\ (pc["cdisp"] = "do_signal" /\ pc'["cdisp"] = "fatal") => petitions[signal_id] # 0
     /\ (pc["intake"] \in {"convert", "prepare"} /\ pc'["intake"] = "fatal")
           => petitions[mid[intake_msg]] # 0]_vars

\* the reply queue of message k has received a terminal frame: an integer
\* (finish(ret)) or the sentinel (finish())
HasTerminalFrame(k) ==
  \E j \in 1..Len(hist[k].frames) : hist[k].frames[j] \in {"code", "none"}

\* C37: for every message for which submit returned without
\* ManagerShutdownError, the reply queue eventually receives a terminal frame,
\* also when conversion rejects the message and when the admission check
\* fails unexpectedly.  As a property of finite runs: once the engine is
\* quiescent, and so will do nothing more for the messages it has taken, the
\* reply queue of every submitted message has received a terminal frame.
C37_TerminalFrameWhenQuiescent ==
  Quiescent => \A k \in 1..nmsgs : HasTerminalFrame(k)

\* petition k was cancelled before it was admitted
CancelledWhileEnqueued(k) == pstate[k] = "CANCELLED" /\ hist[k].start = 0

\* C39: a petition that was cancelled while ENQUEUED (before admission) is
\* never started: the manager's on_start is never invoked for it, its action
\* is never executed, and its id is never added to running-ids.  As a
\* property of the steps taken once the petition is CANCELLED without having
\* been started: none invokes on_start for it, none runs its action, none is
\* start_petition's add of its id.
C39_CancelledIsNeverStarted ==
  [][\A k \in Msgs :
       CancelledWhileEnqueued(k) =>
          /\ hist'[k].start = 0
          /\ hist'[k].action = "no"
          /\ ~(pc["adm"] = "start" /\ adm.cur = k /\ pc'["adm"] = "start_lock")]_vars

\* ------------------------------------------------------------------------
\* The state setter on its own: every assignment, to petitions in every state
\* ------------------------------------------------------------------------
InitSetter ==
  /\ InitCommon
  /\ probe = NoProbe
  /\ mprio = [k \in Msgs |-> 1]
  /\ env = [msgs |-> 0, cancels |-> 0, faults |-> 0, stops |-> 0, events |-> 0,
            timeouts |-> 0, ids |-> 0, prios |-> 0, la |-> {1}]
  /\ look_ahead = 1
  /\ old_look_ahead = 1

\* `p.state = new` on petition k
SetState(k, new) ==
  /\ pstate' = [pstate EXCEPT ![k] = StateAfterSet(@, new)]
  /\ probe' = [op |-> "set", k |-> k, from |-> pstate[k], to |-> new,
               accepted |-> StateSetterAccepts(pstate[k], new)]
  /\ UNCHANGED << queue, finishq, signals, internalq, petitions, emptyKey,
                  enqueued_messages, starveVars, flagVars, petition_lock, poolVars, pc,
                  localVars, env, ntimeouts, clientVars, hist >>

NextSetter == \E k \in Msgs, new \in PetitionState : SetState(k, new)

SpecSetter == InitSetter /\ [][NextSetter]_vars

\* The table of the claim, pair by pair
ClaimedTable ==
  { <<"PENDING", "ENQUEUED">>, <<"PENDING", "BROKEN">>,
    <<"ENQUEUED", "RUNNING">>, <<"ENQUEUED", "CANCELLED">>, <<"ENQUEUED", "BROKEN">>,
    <<"RUNNING", "FINISHED">>, <<"RUNNING", "CANCELLED">>, <<"RUNNING", "BROKEN">>,
    <<"FINISHED", "DONE">>, <<"FINISHED", "BROKEN">>,
    <<"CANCELLED", "DONE">>, <<"CANCELLED", "BROKEN">> }

\* C1 as stated: an assignment is accepted exactly when (from, to) is a pair of
\* the table; every other pair is rejected with InvalidStateError.
C1_AcceptedIffInTable ==
  probe.op = "set" => (probe.accepted <=> <<probe.from, probe.to>> \in ClaimedTable)

\* C1 amended: an assignment is accepted exactly when to = from or (from, to)
\* is a pair of the table; an accepted assignment leaves the petition in `to`,
\* a rejected one (InvalidStateError) leaves it in `from`.
C1_AcceptedIffSameOrInTable ==
  probe.op = "set" =>
    /\ probe.accepted <=> (probe.to = probe.from \/ <<probe.from, probe.to>> \in ClaimedTable)
    /\ pstate[probe.k] = IF probe.accepted THEN probe.to ELSE probe.from

\* C1 witness: a DONE petition is assigned DONE and the setter accepts it,
\* after a petition was refused a pair outside the table
C1_SelfAssignmentAccepted ==
  /\ probe.op = "set"
  /\ probe.from = "DONE" /\ probe.to = "DONE" /\ probe.accepted
  /\ \E k \in Msgs : pstate[k] = "BROKEN"

\* ------------------------------------------------------------------------
\* The ready queue on its own: petitions 1..MaxPuts are put in this order,
\* with any priorities, and got at any moments
\* ------------------------------------------------------------------------
InitQueue ==
  /\ InitCommon
  /\ probe = [op |-> "queue", got |-> <<>>]
  /\ mprio \in [1..MaxPuts -> Prios]
  /\ env = [msgs |-> 0, cancels |-> 0, faults |-> 0, stops |-> 0, events |-> 0,
            timeouts |-> 0, ids |-> 0, prios |-> NumPrios, la |-> {1}]
  /\ look_ahead = 1
  /\ old_look_ahead = 1

\* self._internalq.put(petition), for the next petition
QueuePut ==
  /\ nmsgs < MaxPuts
  /\ nmsgs' = nmsgs + 1
  /\ internalq' = HeapPush(internalq, nmsgs + 1)
  /\ UNCHANGED << queue, finishq, signals, petitions, emptyKey, enqueued_messages,
                  starveVars, flagVars, petition_lock, poolVars, pc, localVars, probe, env,
                  ntimeouts, ncancels, rejected, ids_used, mid, mprio, pstate, hist >>

\* self._internalq.get() on a queue that is not empty
QueueGet ==
  /\ internalq # <<>>
  /\ probe' = [probe EXCEPT !.got = Append(@, HeapTop(internalq))]
  /\ internalq' = HeapRest(internalq)
  /\ UNCHANGED << queue, finishq, signals, petitions, emptyKey, enqueued_messages,
                  starveVars, flagVars, petition_lock, poolVars, pc, localVars, env,
                  ntimeouts, clientVars, pstate, hist >>

NextQueue == QueuePut \/ QueueGet

SpecQueue == InitQueue /\ [][NextQueue]_vars

\* C8 as stated: petitions of equal priority leave the ready queue in the order
\* in which they were put: when b has been got, every petition of b's priority
\* that was put before b has been got before b.
C8_EqualPriorityFifo ==
  \A j \in 1..Len(probe.got) : \A a \in 1..nmsgs :
    (a < probe.got[j] /\ mprio[a] = mprio[probe.got[j]])
      => \E i \in 1..(j - 1) : probe.got[i] = a

\* C8 amended: every get from the ready queue returns a petition whose priority
\* number is the smallest of the petitions queued at that moment (the order
\* among equal priorities is not the order of arrival in general).
C8_GetReturnsSmallestPriority ==
  [][Len(probe'.got) > Len(probe.got) =>
       /\ probe'.got[Len(probe'.got)] \in InQueue(internalq)
       /\ \A x \in InQueue(internalq) :
            mprio[probe'.got[Len(probe'.got)]] <= mprio[x]]_vars

\* C8 witness: two petitions of equal priority have been got, the one that was
\* put later first.
C8_EqualPriorityOutOfOrder ==
  \E i, j \in 1..Len(probe.got) :
    i < j /\ probe.got[i] > probe.got[j] /\ mprio[probe.got[i]] = mprio[probe.got[j]]

====
